---- MODULE Spec2Model ----
(***************************************************************************)
(* IT asset tracker: the Record Store (itam-saas/Agent/queries.js) and the *)
(* HTTP API layer (itam-saas/Agent/server.js) over a relational store      *)
(* whose tables are the ones declared by initDatabase.                     *)
(*                                                                         *)
(* JavaScript values are strings; the tokens Undef and Null stand for      *)
(* undefined and null, "0" and "false" for the number 0 and the boolean    *)
(* false.  Timestamps are integers read from the clock `now`.              *)
(***************************************************************************)
EXTENDS Integers, Sequences, FiniteSets, TLC

VARIABLES
    schema,     \* tables and indexes that exist in the database
    dbUp,       \* whether the pool can reach the database
    assets,     \* rows of table assets
    licenses,   \* rows of table licenses
    users,      \* rows of table users
    contracts,  \* rows of table contracts
    now,        \* the clock (CURRENT_TIMESTAMP and new Date())
    boot,       \* position of startServer / initDatabase
    deleted,    \* asset ids a delete returned and no create has returned since
    last,       \* the last store call: input, statement, result, HTTP response
    exchange,   \* the last call of a Client Data Gateway function
    ui,         \* the state of the UI Shell (React state of App)
    ops         \* the UI Shell's operations: loads, saves and deletes

\* the browser side
client == <<exchange, ui, ops>>

vars == <<schema, dbUp, assets, licenses, users, contracts, now, boot, deleted,
          last, exchange, ui, ops>>

(* ------------------------------ bounds -------------------------------- *)

\* the clock stops ticking at MaxTime
MaxTime == 1

\* how many values gen_random_uuid() draws from
NumIds == 2

\* how many runs of loadAssets, handleAddAsset and handleDeleteAsset the
\* page starts
MaxOps == 3

(* --------------------------- JavaScript values ------------------------ *)

Undef == "undefined"
Null == "null"

\* obj[k] of a JS object: undefined when the key is absent
Get(obj, k) == IF k \in DOMAIN obj THEN obj[k] ELSE Undef

\* a || b, b taking the place of a value `||` treats as false
Or(a, b) == IF a \in {Undef, Null, "", "0", "false"} THEN b ELSE a

\* node-postgres sends undefined as NULL
SqlParam(v) == IF v = Undef THEN Null ELSE v

(* --------------------------- the database ----------------------------- *)

\* values gen_random_uuid() can return, and the ids a caller can send
UUIDs == {<<"u1", "u2", "u3", "u4">>[i] : i \in 1..NumIds}
RequestIds == UUIDs \cup {"42"}

\* CREATE TABLE IF NOT EXISTS assets (...)
AssetsTable ==
    [ name      |-> "assets",
      columns   |-> {"id", "asset_tag", "asset_type", "manufacturer", "model",
                     "serial_number", "assigned_user_name", "status", "cost",
                     "discovered", "created_at", "updated_at"},
      notNull   |-> {"id", "asset_tag", "asset_type"},
      unique    |-> {"id", "asset_tag", "serial_number"},
      numeric   |-> {"cost"},
      boolean   |-> {"discovered"},
      defaults  |-> [status |-> "In Use", cost |-> "0", discovered |-> "false"] ]

\* CREATE TABLE IF NOT EXISTS licenses (...)
LicensesTable ==
    [ name      |-> "licenses",
      columns   |-> {"id", "license_name", "license_type", "license_key",
                     "software_name", "vendor", "expiration_date", "quantity",
                     "status", "cost", "notes", "created_at", "updated_at"},
      notNull   |-> {"id", "license_name", "license_type"},
      unique    |-> {"id", "license_key"},
      numeric   |-> {"quantity", "cost"},
      boolean   |-> {},
      defaults  |-> [quantity |-> "1", status |-> "Active", cost |-> "0"] ]

\* CREATE TABLE IF NOT EXISTS users (...)
UsersTable ==
    [ name      |-> "users",
      columns   |-> {"id", "user_name", "email", "department", "phone", "role",
                     "status", "assigned_assets", "notes", "created_at",
                     "updated_at"},
      notNull   |-> {"id", "user_name"},
      unique    |-> {"id", "email"},
      numeric   |-> {"assigned_assets"},
      boolean   |-> {},
      defaults  |-> [status |-> "Active", assigned_assets |-> "0"] ]

\* CREATE TABLE IF NOT EXISTS contracts (...)
ContractsTable ==
    [ name      |-> "contracts",
      columns   |-> {"id", "contract_name", "vendor", "contract_type",
                     "start_date", "end_date", "contract_value", "status",
                     "renewal_date", "contact_person", "contact_email", "notes",
                     "created_at", "updated_at"},
      notNull   |-> {"id", "contract_name"},
      unique    |-> {"id"},
      numeric   |-> {"contract_value"},
      boolean   |-> {},
      defaults  |-> [contract_value |-> "0", status |-> "Active"] ]

\* columns of type TIMESTAMP or DATE
TimeColumns == {"created_at", "updated_at", "expiration_date", "start_date",
                "end_date", "renewal_date"}

\* what a store function hands back: a row, undefined, or a thrown error
NoRow == [id |-> Undef]
\* (rows: result.rows of a query that returns a list)
RowResult(r) ==
    [kind |-> "row", row |-> r, rows |-> <<>>, message |-> "", code |-> ""]
RowsResult(rs) ==
    [kind |-> "rows", row |-> NoRow, rows |-> rs, message |-> "", code |-> ""]
Absent ==
    [kind |-> "absent", row |-> NoRow, rows |-> <<>>, message |-> "", code |-> ""]
Thrown(m, c) ==
    [kind |-> "error", row |-> NoRow, rows |-> <<>>, message |-> m, code |-> c]

ErrConnection == Thrown("connect ECONNREFUSED", "ECONNREFUSED")
ErrNoTable == Thrown("relation does not exist", "42P01")
ErrSyntax == Thrown("invalid input syntax", "22P02")
ErrNotNull == Thrown("null value violates not-null constraint", "23502")
ErrUnique == Thrown("duplicate key value violates unique constraint", "23505")

\* a date text PostgreSQL accepts for TIMESTAMP and DATE columns, and the
\* clock reading it denotes: a day before the clock's start
TimestampLits == {"2000-01-01"}
ParseTimestamp(v) == -1

\* a text parameter bound to column c is of the column's type: a literal
\* PostgreSQL accepts for a DECIMAL, BOOLEAN, UUID or TIMESTAMP column
WellTyped(ddl, c, v) ==
    \/ v = Null
    \/ /\ c \in ddl.numeric => v \in {"0", "1", "5"}
       /\ c \in ddl.boolean => v \in {"true", "false"}
       /\ c = "id" => v \in UUIDs
       /\ c \in TimeColumns => v \in TimestampLits

\* the value column c holds once the text parameter v is stored in it
StoredAs(c, v) ==
    IF c \in TimeColumns /\ v \in TimestampLits THEN ParseTimestamp(v) ELSE v

\* the constraints of a table whose id is no PRIMARY KEY
BreaksUniqueNoKey(ddl, tbl, r) ==
    \E c \in ddl.unique \ {"id"} : r[c] # Null /\ \E o \in tbl : o[c] = r[c]

\* the constraints of a table declared without UNIQUE columns
BreaksUniqueKeyOnly(ddl, tbl, r) ==
    \E o \in tbl : o.id = r.id

\* a table on which no constraint is enforced
BreaksUniqueNever(ddl, tbl, r) == FALSE

\* row r breaks a UNIQUE / PRIMARY KEY constraint against the rows of tbl
BreaksUnique(ddl, tbl, r) ==
    \E c \in ddl.unique : r[c] # Null /\ \E o \in tbl : o[c] = r[c]

\* the statement a store function sent: verb, table and, for UPDATE, the
\* texts interpolated as column names into the SET clause
NoStatement == [verb |-> "none", table |-> "", set |-> <<>>]
Statement(verb, table, fields) == [verb |-> verb, table |-> table, set |-> fields]

\* pool.query: the pool must reach the database and the table must exist
\* before the statement runs; `run` is [result, table] of running it
PoolQuery(ddl, tbl, run) ==
    IF ~dbUp THEN [result |-> ErrConnection, table |-> tbl]
    ELSE IF ddl.name \notin schema THEN [result |-> ErrNoTable, table |-> tbl]
    ELSE run

\* INSERT INTO t (DOMAIN params) VALUES (params) RETURNING *
\* id, created_at and updated_at are not in the column list: they take the
\* DEFAULT gen_random_uuid() (newId) and DEFAULT CURRENT_TIMESTAMP (ts)
InsertedRow(ddl, params, newId, ts) ==
    [c \in ddl.columns |->
        IF c = "id" THEN newId
        ELSE IF c \in {"created_at", "updated_at"} THEN ts
        ELSE IF c \in DOMAIN params THEN StoredAs(c, SqlParam(params[c]))
        ELSE IF c \in DOMAIN ddl.defaults THEN ddl.defaults[c]
        ELSE Null]

RunInsert(ddl, tbl, params, newId, ts) ==
    LET r == InsertedRow(ddl, params, newId, ts) IN
    IF \E c \in DOMAIN params : ~WellTyped(ddl, c, SqlParam(params[c]))
        THEN [result |-> ErrSyntax, table |-> tbl]
    ELSE IF \E c \in ddl.notNull : r[c] = Null
        THEN [result |-> ErrNotNull, table |-> tbl]
    ELSE IF BreaksUnique(ddl, tbl, r)
        THEN [result |-> ErrUnique, table |-> tbl]
    ELSE [result |-> RowResult(r), table |-> tbl \cup {r}]

\* DELETE FROM t WHERE id = $1 RETURNING * ; result.rows[0]
RunDelete(ddl, tbl, id) ==
    IF id \notin UUIDs THEN [result |-> ErrSyntax, table |-> tbl]
    ELSE LET hit == {r \in tbl : r.id = id} IN
         IF hit = {} THEN [result |-> Absent, table |-> tbl]
         ELSE LET r == CHOOSE x \in hit : TRUE IN
              [result |-> RowResult(r), table |-> tbl \ {r}]

\* a key that carries SQL: interpolated as `${key} = $n` it reads
\*   status = 'Retired', cost = $n
InjectedKey == "status = 'Retired', cost"

\* the assignments the SQL parser reads in the text `${key} = $n`, whose
\* parameter is v: [col, val, time] (time: the parameter is a Date)
SetClauseOf(key, v) ==
    IF key = InjectedKey
        THEN << [col |-> "status", val |-> "Retired", time |-> FALSE],
                [col |-> "cost", val |-> v, time |-> FALSE] >>
        ELSE << [col |-> key, val |-> v, time |-> FALSE] >>

RECURSIVE SetClause(_)
\* the SET clause of fields = << [key, val, time], ... >>
SetClause(fields) ==
    IF fields = <<>> THEN <<>>
    ELSE LET f == Head(fields) IN
         (IF f.time THEN << [col |-> f.key, val |-> f.val, time |-> TRUE] >>
                    ELSE SetClauseOf(f.key, f.val))
         \o SetClause(Tail(fields))

\* a parameter of an assignment is of the column's type
AssignTyped(ddl, a) ==
    IF a.time THEN a.col \in TimeColumns ELSE WellTyped(ddl, a.col, a.val)

\* the value an assignment stores in its column
AssignedValue(a) == IF a.time THEN a.val ELSE StoredAs(a.col, a.val)

\* UPDATE t SET <fields> WHERE id = $n RETURNING * ; result.rows[0]
RunUpdate(ddl, tbl, fields, id) ==
    LET set == SetClause(fields)
        idx == 1..Len(set)
        new(r) == [c \in ddl.columns |->
                     IF \E i \in idx : set[i].col = c
                     THEN AssignedValue(set[CHOOSE i \in idx : set[i].col = c])
                     ELSE r[c]]
    IN
    IF \E i \in idx : set[i].col \notin ddl.columns
        THEN [result |-> Thrown("column does not exist", "42703"), table |-> tbl]
    ELSE IF \E i, j \in idx : i # j /\ set[i].col = set[j].col
        THEN [result |-> Thrown("multiple assignments to same column", "42601"), table |-> tbl]
    ELSE IF id \notin UUIDs \/ \E i \in idx : ~AssignTyped(ddl, set[i])
        THEN [result |-> ErrSyntax, table |-> tbl]
    ELSE LET hit == {r \in tbl : r.id = id} IN
         IF hit = {} THEN [result |-> Absent, table |-> tbl]
         ELSE LET r == CHOOSE x \in hit : TRUE
                  n == new(r)
              IN IF BreaksUnique(ddl, tbl \ {r}, n)
                     THEN [result |-> ErrUnique, table |-> tbl]
                 ELSE [result |-> RowResult(n), table |-> (tbl \ {r}) \cup {n}]

(* --------------------------- Record Store ----------------------------- *)

RECURSIVE KeySeq(_)
\* the keys of an object, as Object.entries walks them
KeySeq(S) ==
    IF S = {} THEN <<>>
    ELSE LET k == CHOOSE x \in S : TRUE IN <<k>> \o KeySeq(S \ {k})

\* the loop with the test `value !== undefined` alone
UpdateFieldsKeepNull(data) ==
    LET keys == KeySeq({k \in DOMAIN data : data[k] # Undef})
    IN [i \in 1..Len(keys) |->
            [key |-> keys[i], val |-> data[keys[i]], time |-> FALSE]]

\* the loop of update*: keep the entries whose value is neither undefined
\* nor null, as `${key} = $n` with its parameter
UpdateFields(data) ==
    LET keys == KeySeq({k \in DOMAIN data : data[k] # Undef /\ data[k] # Null})
    IN [i \in 1..Len(keys) |->
            [key |-> keys[i], val |-> data[keys[i]], time |-> FALSE]]

\* the body shared by updateAsset, updateLicense, updateUser, updateContract
UpdateById(ddl, tbl, id, data, date) ==
    LET fields == UpdateFields(data) IN
    IF Len(fields) = 0
        THEN [result |-> Thrown("No fields to update", ""), table |-> tbl,
              stmt |-> NoStatement]
    ELSE LET all == Append(fields,
                        [key |-> "updated_at", val |-> date, time |-> TRUE])
             q == PoolQuery(ddl, tbl, RunUpdate(ddl, tbl, all, id))
         IN [result |-> q.result, table |-> q.table,
             stmt |-> Statement("UPDATE", ddl.name,
                                [i \in 1..Len(all) |-> all[i].key])]

\* the body shared by deleteAsset, deleteLicense, deleteUser, deleteContract
DeleteById(ddl, tbl, id) ==
    LET q == PoolQuery(ddl, tbl, RunDelete(ddl, tbl, id))
    IN [result |-> q.result, table |-> q.table,
        stmt |-> Statement("DELETE", ddl.name, <<>>)]

\* INSERT with the parameter list a create* built
InsertInto(ddl, tbl, params, newId, ts) ==
    LET q == PoolQuery(ddl, tbl, RunInsert(ddl, tbl, params, newId, ts))
    IN [result |-> q.result, table |-> q.table,
        stmt |-> Statement("INSERT", ddl.name, <<>>)]

\* createAsset passing status, cost and discovered as destructured
createAssetNoDefaults(assetData, newId, ts) ==
    InsertInto(AssetsTable, assets,
        [ asset_tag          |-> Get(assetData, "asset_tag"),
          asset_type         |-> Get(assetData, "asset_type"),
          manufacturer       |-> Get(assetData, "manufacturer"),
          model              |-> Get(assetData, "model"),
          serial_number      |-> Get(assetData, "serial_number"),
          assigned_user_name |-> Get(assetData, "assigned_user_name"),
          status             |-> Get(assetData, "status"),
          cost               |-> Get(assetData, "cost"),
          discovered         |-> Get(assetData, "discovered") ],
        newId, ts)

createAsset(assetData, newId, ts) ==
    InsertInto(AssetsTable, assets,
        [ asset_tag          |-> Get(assetData, "asset_tag"),
          asset_type         |-> Get(assetData, "asset_type"),
          manufacturer       |-> Get(assetData, "manufacturer"),
          model              |-> Get(assetData, "model"),
          serial_number      |-> Get(assetData, "serial_number"),
          assigned_user_name |-> Get(assetData, "assigned_user_name"),
          status             |-> Or(Get(assetData, "status"), "In Use"),
          cost               |-> Or(Get(assetData, "cost"), "0"),
          discovered         |-> Or(Get(assetData, "discovered"), "false") ],
        newId, ts)

updateAsset(id, assetData, date) ==
    UpdateById(AssetsTable, assets, id, assetData, date)

deleteAsset(id) == DeleteById(AssetsTable, assets, id)

createLicense(licenseData, newId, ts) ==
    InsertInto(LicensesTable, licenses,
        [ license_name    |-> Get(licenseData, "license_name"),
          license_type    |-> Get(licenseData, "license_type"),
          license_key     |-> Get(licenseData, "license_key"),
          software_name   |-> Get(licenseData, "software_name"),
          vendor          |-> Get(licenseData, "vendor"),
          expiration_date |-> Get(licenseData, "expiration_date"),
          quantity        |-> Get(licenseData, "quantity"),
          status          |-> Or(Get(licenseData, "status"), "Active"),
          cost            |-> Or(Get(licenseData, "cost"), "0"),
          notes           |-> Get(licenseData, "notes") ],
        newId, ts)

updateLicense(id, licenseData, date) ==
    UpdateById(LicensesTable, licenses, id, licenseData, date)

deleteLicense(id) == DeleteById(LicensesTable, licenses, id)

createUser(userData, newId, ts) ==
    InsertInto(UsersTable, users,
        [ user_name  |-> Get(userData, "user_name"),
          email      |-> Get(userData, "email"),
          department |-> Get(userData, "department"),
          phone      |-> Get(userData, "phone"),
          role       |-> Get(userData, "role"),
          status     |-> Or(Get(userData, "status"), "Active"),
          notes      |-> Get(userData, "notes") ],
        newId, ts)

updateUser(id, userData, date) ==
    UpdateById(UsersTable, users, id, userData, date)

deleteUser(id) == DeleteById(UsersTable, users, id)

createContract(contractData, newId, ts) ==
    InsertInto(ContractsTable, contracts,
        [ contract_name  |-> Get(contractData, "contract_name"),
          vendor         |-> Get(contractData, "vendor"),
          contract_type  |-> Get(contractData, "contract_type"),
          start_date     |-> Get(contractData, "start_date"),
          end_date       |-> Get(contractData, "end_date"),
          contract_value |-> Or(Get(contractData, "contract_value"), "0"),
          status         |-> Or(Get(contractData, "status"), "Active"),
          renewal_date   |-> Get(contractData, "renewal_date"),
          contact_person |-> Get(contractData, "contact_person"),
          contact_email  |-> Get(contractData, "contact_email"),
          notes          |-> Get(contractData, "notes") ],
        newId, ts)

updateContract(id, contractData, date) ==
    UpdateById(ContractsTable, contracts, id, contractData, date)

deleteContract(id) == DeleteById(ContractsTable, contracts, id)

(* --------------------------- reads ------------------------------------ *)

\* the rows of a result are ordered newest-created first
NewestFirst(rs) ==
    \A i, j \in 1..Len(rs) : i < j => rs[i].created_at >= rs[j].created_at

\* ORDER BY created_at DESC over the rows `hit`: every order of them that
\* is descending in created_at (rows created at the same time come in the
\* order the database happens to produce)
OrderByCreatedDesc(hit) ==
    { rs \in [1..Cardinality(hit) -> hit] :
        /\ \A i, j \in 1..Cardinality(hit) : i # j => rs[i] # rs[j]
        /\ NewestFirst(rs) }

\* the characters of the texts that are stored or searched for
Chars ==
    [ t \in {"A-100", "A-200", "Dell Inc", "dell", "a-2", "%", "A_1"} |->
        CASE t = "A-100"    -> <<"A", "-", "1", "0", "0">>
          [] t = "A-200"    -> <<"A", "-", "2", "0", "0">>
          [] t = "Dell Inc" -> <<"D", "e", "l", "l", " ", "I", "n", "c">>
          [] t = "dell"     -> <<"d", "e", "l", "l">>
          [] t = "a-2"      -> <<"a", "-", "2">>
          [] t = "%"        -> <<"%">>
          [] OTHER          -> <<"A", "_", "1">> ]

\* a character folded to lower case
Lower(c) ==
    CASE c = "A" -> "a"
      [] c = "D" -> "d"
      [] c = "I" -> "i"
      [] OTHER -> c

RECURSIVE Like(_, _)
\* text ILIKE pattern, both as character sequences: % matches any run of
\* characters, _ any one character, \ takes the next character literally
Like(text, pattern) ==
    IF pattern = <<>> THEN text = <<>>
    ELSE IF Head(pattern) = "%"
        THEN \/ Like(text, Tail(pattern))
             \/ text # <<>> /\ Like(Tail(text), pattern)
    ELSE IF Head(pattern) = "_"
        THEN text # <<>> /\ Like(Tail(text), Tail(pattern))
    ELSE IF Head(pattern) = "\\" /\ Len(pattern) > 1
        THEN /\ text # <<>>
             /\ Lower(Head(text)) = Lower(pattern[2])
             /\ Like(Tail(text), Tail(Tail(pattern)))
    ELSE /\ text # <<>>
         /\ Lower(Head(text)) = Lower(Head(pattern))
         /\ Like(Tail(text), Tail(pattern))

\* the columns searchAssets looks in
AssetSearchColumns == {"asset_tag", "manufacturer", "model", "assigned_user_name"}

\* a read that sends one SELECT over table ddl.name
SelectFrom(ddl, tbl, result) ==
    LET q == PoolQuery(ddl, tbl, [result |-> result, table |-> tbl])
    IN [result |-> q.result, table |-> q.table,
        stmt |-> Statement("SELECT", ddl.name, <<>>)]

\* SELECT * FROM t ORDER BY created_at DESC ; result.rows
\* the outcomes the call can have, one for each order the database can
\* produce
SelectAll(ddl, tbl) ==
    {SelectFrom(ddl, tbl, RowsResult(rs)) : rs \in OrderByCreatedDesc(tbl)}

getAllAssets == SelectAll(AssetsTable, assets)

getAllLicenses == SelectAll(LicensesTable, licenses)

getAllUsers == SelectAll(UsersTable, users)

getAllContracts == SelectAll(ContractsTable, contracts)

\* SELECT * FROM assets WHERE id = $1 ; result.rows[0]
getAssetById(id) ==
    SelectFrom(AssetsTable, assets,
        IF id \notin UUIDs THEN ErrSyntax
        ELSE LET hit == {r \in assets : r.id = id} IN
             IF hit = {} THEN Absent ELSE RowResult(CHOOSE r \in hit : TRUE))

\* the outcomes searchAssets(query) can have: searchTerm = `%${query}%`,
\* column ILIKE $1 selects the rows, NULL ILIKE $1 being no match
searchAssets(query) ==
    LET searchTerm == <<"%">> \o Chars[query] \o <<"%">>
        hits == {r \in assets : \E c \in AssetSearchColumns :
                    r[c] # Null /\ Like(Chars[r[c]], searchTerm)}
    IN { SelectFrom(AssetsTable, assets, RowsResult(rs)) :
            rs \in OrderByCreatedDesc(hits) }

\* getAssetStats with COUNT(discovered) for its third count
getAssetStatsCountAll ==
    SelectFrom(AssetsTable, assets,
        RowResult([ total_assets |-> Cardinality(assets),
                    in_use |-> Cardinality({r \in assets : r.status = "In Use"}),
                    discovered |-> Cardinality({r \in assets : r.discovered # Null}),
                    retired |-> Cardinality({r \in assets : r.status = "Retired"}) ]))

\* SELECT COUNT(*), COUNT(CASE WHEN ... THEN 1 END), ... FROM assets
getAssetStats ==
    SelectFrom(AssetsTable, assets,
        RowResult([ total_assets |-> Cardinality(assets),
                    in_use |-> Cardinality({r \in assets : r.status = "In Use"}),
                    discovered |-> Cardinality({r \in assets : r.discovered = "true"}),
                    retired |-> Cardinality({r \in assets : r.status = "Retired"}) ]))

(* --------------------------- HTTP API layer --------------------------- *)

\* what res.status(..).json(..) sends: the status and, of the JSON body, the
\* error and message fields and the row or the list of rows it carries
Response(status, error, row) ==
    [status |-> status, error |-> error, message |-> "", row |-> row,
     rows |-> <<>>]

\* no HTTP exchange: the store function was called directly
NoResponse == Response(0, "", NoRow)

\* the list handler answering an empty list when the store call throws
GetAssetsResponseEmptyOnError(result) ==
    IF result.kind = "error" THEN Response(200, "", NoRow)
    ELSE [Response(200, "", NoRow) EXCEPT !.rows = result.rows]

\* app.get('/api/assets'), app.get('/api/assets/search/:query')
GetAssetsResponse(result) ==
    IF result.kind = "error" THEN Response(500, result.message, NoRow)
    ELSE [Response(200, "", NoRow) EXCEPT !.rows = result.rows]

\* the GET handler answering every error with a message of its own
GetAssetsIdResponseOwnMessage(result) ==
    IF result.kind = "error" THEN Response(500, "Internal server error", NoRow)
    ELSE IF result.kind = "absent" THEN Response(404, "Asset not found", NoRow)
    ELSE Response(200, "", result.row)

\* app.get('/api/assets/:id')
GetAssetsIdResponse(result) ==
    IF result.kind = "error" THEN Response(500, result.message, NoRow)
    ELSE IF result.kind = "absent" THEN Response(404, "Asset not found", NoRow)
    ELSE Response(200, "", result.row)

\* app.get('/api/stats')
GetStatsResponse(result) ==
    IF result.kind = "error" THEN Response(500, result.message, NoRow)
    ELSE Response(200, "", result.row)

\* the POST handler answering with res.json(asset)
PostAssetsResponsePlain(result) ==
    IF result.kind = "error" THEN Response(400, result.message, NoRow)
    ELSE Response(200, "", result.row)

\* app.post('/api/assets')
PostAssetsResponse(result) ==
    IF result.kind = "error" THEN Response(400, result.message, NoRow)
    ELSE Response(201, "", result.row)

\* the PUT handler without its `if (!asset)` branch
PutAssetsIdResponseNo404(result) ==
    IF result.kind = "error" THEN Response(400, result.message, NoRow)
    ELSE Response(200, "", result.row)

\* app.put('/api/assets/:id')
PutAssetsIdResponse(result) ==
    IF result.kind = "error" THEN Response(400, result.message, NoRow)
    ELSE IF result.kind = "absent" THEN Response(404, "Asset not found", NoRow)
    ELSE Response(200, "", result.row)

\* app.delete('/api/assets/:id')
DeleteAssetsIdResponse(result) ==
    IF result.kind = "error" THEN Response(500, result.message, NoRow)
    ELSE IF result.kind = "absent" THEN Response(404, "Asset not found", NoRow)
    ELSE [Response(200, "", result.row) EXCEPT !.message = "Asset deleted"]

\* The responses a handler sends, in order, along the path its store call's
\* result takes it: the catch block for a thrown error; else the try block,
\* where `return res.status(404)...` ends the handler.

\* app.get('/api/assets') and app.get('/api/assets/search/:query')
GetAssetsSends(result) ==
    IF result.kind = "error" THEN << Response(500, result.message, NoRow) >>
    ELSE << [Response(200, "", NoRow) EXCEPT !.rows = result.rows] >>

\* app.get('/api/assets/:id')
GetAssetsIdSends(result) ==
    IF result.kind = "error" THEN << Response(500, result.message, NoRow) >>
    ELSE LET returned == result.kind = "absent"
             notFound == IF result.kind = "absent"
                            THEN << Response(404, "Asset not found", NoRow) >>
                            ELSE <<>>
         IN notFound \o (IF returned THEN <<>>
                                      ELSE << Response(200, "", result.row) >>)

\* app.get('/api/stats')
GetStatsSends(result) ==
    IF result.kind = "error" THEN << Response(500, result.message, NoRow) >>
    ELSE << Response(200, "", result.row) >>

\* app.post('/api/assets')
PostAssetsSends(result) ==
    IF result.kind = "error" THEN << Response(400, result.message, NoRow) >>
    ELSE << Response(201, "", result.row) >>

\* the PUT handler with `res.status(404).json(...)` not followed by return
PutAssetsIdSendsNoReturn(result) ==
    IF result.kind = "error" THEN << Response(400, result.message, NoRow) >>
    ELSE LET returned == FALSE
             notFound == IF result.kind = "absent"
                            THEN << Response(404, "Asset not found", NoRow) >>
                            ELSE <<>>
         IN notFound \o (IF returned THEN <<>>
                                      ELSE << Response(200, "", result.row) >>)

\* app.put('/api/assets/:id')
PutAssetsIdSends(result) ==
    IF result.kind = "error" THEN << Response(400, result.message, NoRow) >>
    ELSE LET returned == result.kind = "absent"
             notFound == IF result.kind = "absent"
                            THEN << Response(404, "Asset not found", NoRow) >>
                            ELSE <<>>
         IN notFound \o (IF returned THEN <<>>
                                      ELSE << Response(200, "", result.row) >>)

\* app.delete('/api/assets/:id')
DeleteAssetsIdSends(result) ==
    IF result.kind = "error" THEN << Response(500, result.message, NoRow) >>
    ELSE LET returned == result.kind = "absent"
             notFound == IF result.kind = "absent"
                            THEN << Response(404, "Asset not found", NoRow) >>
                            ELSE <<>>
         IN notFound \o
            (IF returned THEN <<>>
             ELSE << [Response(200, "", result.row)
                        EXCEPT !.message = "Asset deleted"] >>)

\* the responses sent by the handler that calls store function op
HandlerSends(op, result) ==
    CASE op \in {"getAllAssets", "searchAssets"} -> GetAssetsSends(result)
      [] op = "getAssetById" -> GetAssetsIdSends(result)
      [] op = "getAssetStats" -> GetStatsSends(result)
      [] op = "createAsset" -> PostAssetsSends(result)
      [] op = "updateAsset" -> PutAssetsIdSends(result)
      [] op = "deleteAsset" -> DeleteAssetsIdSends(result)
      [] OTHER -> <<>>

(* --------------------------- startup ---------------------------------- *)

\* let retries = 3
Retries == 3

\* setTimeout(resolve, 2000)
RetryDelayMs == 2000

\* the statements of initDatabase, in order; the last one is the catalog
\* query that verifies the four tables
InitStatements ==
    << [kind |-> "table", name |-> "assets", on |-> ""],
       [kind |-> "table", name |-> "licenses", on |-> ""],
       [kind |-> "table", name |-> "users", on |-> ""],
       [kind |-> "table", name |-> "contracts", on |-> ""],
       [kind |-> "index", name |-> "idx_asset_tag", on |-> "assets"],
       [kind |-> "index", name |-> "idx_status", on |-> "assets"],
       [kind |-> "index", name |-> "idx_license_name", on |-> "licenses"],
       [kind |-> "index", name |-> "idx_license_status", on |-> "licenses"],
       [kind |-> "index", name |-> "idx_user_name", on |-> "users"],
       [kind |-> "index", name |-> "idx_user_status", on |-> "users"],
       [kind |-> "index", name |-> "idx_contract_name", on |-> "contracts"],
       [kind |-> "index", name |-> "idx_contract_status", on |-> "contracts"],
       [kind |-> "verify", name |-> "", on |-> ""] >>

TableNames == {"assets", "licenses", "users", "contracts"}

\* the schema after the first k statements of initDatabase ran on an empty
\* database
SchemaAfter(k) == {InitStatements[i].name : i \in 1..k}

FullSchema == SchemaAfter(Len(InitStatements) - 1)

\* the statements with CREATE TABLE in place of CREATE TABLE IF NOT EXISTS
RunInitStatementBareTable(st, sch) ==
    IF ~dbUp THEN [schema |-> sch, ok |-> FALSE]
    ELSE IF st.kind = "table"
        THEN IF st.name \in sch THEN [schema |-> sch, ok |-> FALSE]
             ELSE [schema |-> sch \cup {st.name}, ok |-> TRUE]
    ELSE IF st.kind = "index"
        THEN IF st.on \in sch THEN [schema |-> sch \cup {st.name}, ok |-> TRUE]
             ELSE [schema |-> sch, ok |-> FALSE]
    ELSE [schema |-> sch, ok |-> TableNames \subseteq sch]

\* the statements with CREATE INDEX in place of CREATE INDEX IF NOT EXISTS
RunInitStatementBareIndex(st, sch) ==
    IF ~dbUp THEN [schema |-> sch, ok |-> FALSE]
    ELSE IF st.kind = "table" THEN [schema |-> sch \cup {st.name}, ok |-> TRUE]
    ELSE IF st.kind = "index"
        THEN IF st.on \in sch /\ st.name \notin sch
                THEN [schema |-> sch \cup {st.name}, ok |-> TRUE]
             ELSE [schema |-> sch, ok |-> FALSE]
    ELSE [schema |-> sch, ok |-> TableNames \subseteq sch]

\* one statement of initDatabase against schema sch: what it leaves and
\* whether it throws
RunInitStatement(st, sch) ==
    IF ~dbUp THEN [schema |-> sch, ok |-> FALSE]
    ELSE IF st.kind = "table" THEN [schema |-> sch \cup {st.name}, ok |-> TRUE]
    ELSE IF st.kind = "index"
        THEN IF st.on \in sch THEN [schema |-> sch \cup {st.name}, ok |-> TRUE]
             ELSE [schema |-> sch, ok |-> FALSE]
    ELSE [schema |-> sch, ok |-> TableNames \subseteq sch]

\* startServer before its first loop test
\* (from: the schema the running or last attempt of initDatabase started on)
BootStart ==
    [ pc |-> "loop", retries |-> Retries, stmt |-> 0, calls |-> 0,
      running |-> 0, sleeps |-> 0, waited |-> 0, outcome |-> "", from |-> {} ]

\* startServer after a first attempt that succeeded
BootInitialized ==
    [ pc |-> "done", retries |-> Retries, stmt |-> 0, calls |-> 1,
      running |-> 0, sleeps |-> 0, waited |-> 0, outcome |-> "initialized",
      from |-> {} ]

\* while (retries > 0) { try { await db.initDatabase()
StartAttempt ==
    /\ boot.pc = "loop"
    /\ boot.retries > 0
    /\ boot' = [boot EXCEPT !.pc = "init", !.stmt = 1, !.calls = @ + 1,
                            !.running = @ + 1, !.from = schema]
    /\ UNCHANGED <<schema, dbUp, assets, licenses, users, contracts, now, last, deleted, client>>

\* the catch block waiting 2 seconds after every failure, the last included
InitStepAlwaysWaits ==
    /\ boot.pc = "init"
    /\ LET r == RunInitStatement(InitStatements[boot.stmt], schema) IN
       /\ schema' = r.schema
       /\ IF r.ok
            THEN IF boot.stmt = Len(InitStatements)
                    THEN boot' = [boot EXCEPT !.pc = "done", !.stmt = 0,
                                    !.running = @ - 1,
                                    !.outcome = "initialized"]
                    ELSE boot' = [boot EXCEPT !.stmt = @ + 1]
            ELSE boot' = [boot EXCEPT !.pc = "sleep", !.stmt = 0,
                            !.running = @ - 1, !.retries = @ - 1]
    /\ UNCHANGED <<dbUp, assets, licenses, users, contracts, now, last, deleted, client>>

\* initDatabase: the next awaited pool.query; on the last one it returns to
\* startServer, which returns; a throw lands in startServer's catch
InitStep ==
    /\ boot.pc = "init"
    /\ LET r == RunInitStatement(InitStatements[boot.stmt], schema) IN
       /\ schema' = r.schema
       /\ IF r.ok
            THEN IF boot.stmt = Len(InitStatements)
                    THEN boot' = [boot EXCEPT !.pc = "done", !.stmt = 0,
                                    !.running = @ - 1,
                                    !.outcome = "initialized"]
                    ELSE boot' = [boot EXCEPT !.stmt = @ + 1]
            ELSE boot' = [boot EXCEPT
                            !.pc = IF boot.retries - 1 > 0 THEN "sleep" ELSE "loop",
                            !.stmt = 0,
                            !.running = @ - 1,
                            !.retries = @ - 1]
    /\ UNCHANGED <<dbUp, assets, licenses, users, contracts, now, last, deleted, client>>

\* await new Promise(resolve => setTimeout(resolve, 2000))
RetryDelay ==
    /\ boot.pc = "sleep"
    /\ boot' = [boot EXCEPT !.pc = "loop", !.sleeps = @ + 1,
                            !.waited = @ + RetryDelayMs]
    /\ UNCHANGED <<schema, dbUp, assets, licenses, users, contracts, now, last, deleted, client>>

\* the loop test fails: console.warn(...) and startServer returns
GiveUp ==
    /\ boot.pc = "loop"
    /\ boot.retries <= 0
    /\ boot' = [boot EXCEPT !.pc = "done", !.outcome = "degraded"]
    /\ UNCHANGED <<schema, dbUp, assets, licenses, users, contracts, now, last, deleted, client>>

\* the database becomes reachable or unreachable
DbFlip ==
    /\ dbUp' = ~dbUp
    /\ UNCHANGED <<schema, assets, licenses, users, contracts, now, boot, last, deleted, client>>

\* the statements of the second initDatabase of queries.js: the assets
\* table, its two indexes and a catalog query for the assets table alone
InitStatementsSecond ==
    << [kind |-> "table", name |-> "assets", on |-> ""],
       [kind |-> "index", name |-> "idx_asset_tag", on |-> "assets"],
       [kind |-> "index", name |-> "idx_status", on |-> "assets"],
       [kind |-> "verify", name |-> "", on |-> ""] >>

\* one statement of the second initDatabase against schema sch
RunInitStatementSecond(st, sch) ==
    IF ~dbUp THEN [schema |-> sch, ok |-> FALSE]
    ELSE IF st.kind = "table" THEN [schema |-> sch \cup {st.name}, ok |-> TRUE]
    ELSE IF st.kind = "index"
        THEN IF st.on \in sch THEN [schema |-> sch \cup {st.name}, ok |-> TRUE]
             ELSE [schema |-> sch, ok |-> FALSE]
    ELSE [schema |-> sch, ok |-> "assets" \in sch]

\* the second initDatabase: its next awaited pool.query
InitStepSecond ==
    /\ boot.pc = "init"
    /\ LET r == RunInitStatementSecond(InitStatementsSecond[boot.stmt], schema) IN
       /\ schema' = r.schema
       /\ IF r.ok
            THEN IF boot.stmt = Len(InitStatementsSecond)
                    THEN boot' = [boot EXCEPT !.pc = "done", !.stmt = 0,
                                    !.running = @ - 1,
                                    !.outcome = "initialized"]
                    ELSE boot' = [boot EXCEPT !.stmt = @ + 1]
            ELSE boot' = [boot EXCEPT
                            !.pc = IF boot.retries - 1 > 0 THEN "sleep" ELSE "loop",
                            !.stmt = 0,
                            !.running = @ - 1,
                            !.retries = @ - 1]
    /\ UNCHANGED <<dbUp, assets, licenses, users, contracts, now, last, deleted, client>>

(* --------------------------- requests --------------------------------- *)

\* request bodies of POST /api/assets
AssetPayloads ==
    << [asset_tag |-> "A-100", asset_type |-> "hardware"],
       [asset_tag |-> "A-200", asset_type |-> "hardware",
        manufacturer |-> "Dell Inc", serial_number |-> "SN1",
        status |-> "Retired", cost |-> "5", discovered |-> "true"],
       [asset_tag |-> "A-200", asset_type |-> "hardware", serial_number |-> "",
        status |-> ""],
       [asset_type |-> "hardware"],
       [asset_tag |-> "A-100", asset_type |-> "hardware",
        serial_number |-> "SN1"],
       [asset_tag |-> "A-300", asset_type |-> "hardware", cost |-> "abc"] >>

\* request bodies of PUT /api/assets/:id
AssetUpdates ==
    << [x \in {} |-> Null],
       [status |-> Null, cost |-> Undef],
       [status |-> "Retired", manufacturer |-> Null],
       [asset_tag |-> "A-100"],
       [serial_number |-> "SN1"],
       [foo |-> "x"],
       [id |-> "u2"],
       [created_at |-> "2000-01-01"],
       [updated_at |-> "2000-01-01"],
       [cost |-> "abc"],
       (InjectedKey :> "5") >>

\* the record of a call: what was asked, the table before it, the statement
\* sent, what the store function returned and what the handler answered
Call(op, id, data, before, out, http) ==
    [ op |-> op, id |-> id, data |-> data, before |-> before, at |-> now,
      gone |-> deleted, stmt |-> out.stmt, result |-> out.result, http |-> http ]

\* no call is being answered
NoCall ==
    [ op |-> "none", id |-> "", data |-> [x \in {} |-> Null], before |-> {},
      at |-> 0, gone |-> {}, stmt |-> NoStatement, result |-> Absent, http |-> NoResponse ]

\* POST /api/assets, its body one of `payloads`
PostAssetsOf(payloads) ==
    /\ last = NoCall
    /\ \E i \in 1..Len(payloads), newId \in UUIDs :
        LET out == createAsset(payloads[i], newId, now) IN
        /\ assets' = out.table
        /\ last' = Call("createAsset", "", payloads[i], assets, out,
                        PostAssetsResponse(out.result))
        /\ deleted' = IF out.result.kind = "row"
                         THEN deleted \ {out.result.row.id} ELSE deleted
    /\ UNCHANGED <<schema, dbUp, licenses, users, contracts, now, boot, client>>

PostAssets == PostAssetsOf(AssetPayloads)

\* PUT /api/assets/:id, its body one of `bodies`
PutAssetsIdOf(bodies) ==
    /\ last = NoCall
    /\ \E i \in 1..Len(bodies), id \in RequestIds :
        LET out == updateAsset(id, bodies[i], now) IN
        /\ assets' = out.table
        /\ last' = Call("updateAsset", id, bodies[i], assets, out,
                        PutAssetsIdResponse(out.result))
    /\ UNCHANGED <<schema, dbUp, licenses, users, contracts, now, boot, deleted, client>>

PutAssetsId == PutAssetsIdOf(AssetUpdates)

\* DELETE /api/assets/:id
DeleteAssetsId ==
    /\ last = NoCall
    /\ \E id \in RequestIds :
        LET out == deleteAsset(id) IN
        /\ assets' = out.table
        /\ last' = Call("deleteAsset", id, [x \in {} |-> Null], assets, out,
                        DeleteAssetsIdResponse(out.result))
        /\ deleted' = IF out.result.kind = "row"
                         THEN deleted \cup {id} ELSE deleted
    /\ UNCHANGED <<schema, dbUp, licenses, users, contracts, now, boot, client>>

\* the caller has read the answer; the exchange is over
Deliver ==
    /\ last # NoCall
    /\ last' = NoCall
    /\ UNCHANGED <<schema, dbUp, assets, licenses, users, contracts, now, boot, deleted, client>>

\* time passes
Tick ==
    /\ now < MaxTime
    /\ now' = now + 1
    /\ UNCHANGED <<schema, dbUp, assets, licenses, users, contracts, boot, last, deleted, client>>

\* the requests made of the API while reads are looked at
ApiPayloads ==
    << [asset_tag |-> "A-100", asset_type |-> "hardware"],
       [asset_tag |-> "A-200", asset_type |-> "hardware",
        manufacturer |-> "Dell Inc", serial_number |-> "SN1",
        status |-> "Retired", cost |-> "5", discovered |-> "true"] >>
ApiUpdates ==
    << [status |-> "Retired"],
       [created_at |-> "2000-01-01"] >>

\* the :query values of GET /api/assets/search/:query
Queries == <<"dell", "a-2", "%", "A_1">>

\* GET /api/assets
GetAssets ==
    /\ last = NoCall
    /\ \E out \in getAllAssets :
        last' = Call("getAllAssets", "", [x \in {} |-> Null], assets, out,
                     GetAssetsResponse(out.result))
    /\ UNCHANGED <<schema, dbUp, assets, licenses, users, contracts, now, boot, deleted, client>>

\* GET /api/assets/:id
GetAssetsId ==
    /\ last = NoCall
    /\ \E id \in RequestIds :
        LET out == getAssetById(id) IN
        last' = Call("getAssetById", id, [x \in {} |-> Null], assets, out,
                     GetAssetsIdResponse(out.result))
    /\ UNCHANGED <<schema, dbUp, assets, licenses, users, contracts, now, boot, deleted, client>>

\* GET /api/assets/search/:query
GetAssetsSearch ==
    /\ last = NoCall
    /\ \E i \in 1..Len(Queries) : \E out \in searchAssets(Queries[i]) :
        last' = Call("searchAssets", "", [query |-> Queries[i]], assets, out,
                     GetAssetsResponse(out.result))
    /\ UNCHANGED <<schema, dbUp, assets, licenses, users, contracts, now, boot, deleted, client>>

\* GET /api/stats
GetStats ==
    /\ last = NoCall
    /\ LET out == getAssetStats IN
        last' = Call("getAssetStats", "", [x \in {} |-> Null], assets, out,
                     GetStatsResponse(out.result))
    /\ UNCHANGED <<schema, dbUp, assets, licenses, users, contracts, now, boot, deleted, client>>

(* ------------- licenses, users, contracts: direct store calls --------- *)

LicensePayloads ==
    << [license_name |-> "Office", license_type |-> "subscription",
        license_key |-> "KEY-1"],
       [license_type |-> "subscription"] >>

UserPayloads ==
    << [user_name |-> "alice", email |-> "alice@example.com"],
       [email |-> "bob@example.com"] >>

ContractPayloads ==
    << [contract_name |-> "Support"],
       [vendor |-> "Dell Inc"] >>

\* field bags handed to updateLicense, updateUser, updateContract
EntityUpdates ==
    << [x \in {} |-> Null],
       [status |-> Null, notes |-> Undef],
       [status |-> "Expired", notes |-> Null],
       [foo |-> "x"] >>

\* the asset requests made next to the other entities' calls
FewAssetPayloads == << [asset_tag |-> "A-100", asset_type |-> "hardware"] >>
FewAssetUpdates ==
    << [x \in {} |-> Null],
       [status |-> Null, cost |-> Undef],
       [status |-> "Retired", manufacturer |-> Null] >>

CreateLicense ==
    /\ last = NoCall
    /\ \E i \in 1..Len(LicensePayloads), newId \in UUIDs :
        LET out == createLicense(LicensePayloads[i], newId, now) IN
        /\ licenses' = out.table
        /\ last' = Call("createLicense", "", LicensePayloads[i], licenses, out,
                        NoResponse)
    /\ UNCHANGED <<schema, dbUp, assets, users, contracts, now, boot, deleted, client>>

UpdateLicense ==
    /\ last = NoCall
    /\ \E i \in 1..Len(EntityUpdates), id \in RequestIds :
        LET out == updateLicense(id, EntityUpdates[i], now) IN
        /\ licenses' = out.table
        /\ last' = Call("updateLicense", id, EntityUpdates[i], licenses, out,
                        NoResponse)
    /\ UNCHANGED <<schema, dbUp, assets, users, contracts, now, boot, deleted, client>>

DeleteLicense ==
    /\ last = NoCall
    /\ \E id \in RequestIds :
        LET out == deleteLicense(id) IN
        /\ licenses' = out.table
        /\ last' = Call("deleteLicense", id, [x \in {} |-> Null], licenses, out,
                        NoResponse)
    /\ UNCHANGED <<schema, dbUp, assets, users, contracts, now, boot, deleted, client>>

CreateUser ==
    /\ last = NoCall
    /\ \E i \in 1..Len(UserPayloads), newId \in UUIDs :
        LET out == createUser(UserPayloads[i], newId, now) IN
        /\ users' = out.table
        /\ last' = Call("createUser", "", UserPayloads[i], users, out,
                        NoResponse)
    /\ UNCHANGED <<schema, dbUp, assets, licenses, contracts, now, boot, deleted, client>>

UpdateUser ==
    /\ last = NoCall
    /\ \E i \in 1..Len(EntityUpdates), id \in RequestIds :
        LET out == updateUser(id, EntityUpdates[i], now) IN
        /\ users' = out.table
        /\ last' = Call("updateUser", id, EntityUpdates[i], users, out,
                        NoResponse)
    /\ UNCHANGED <<schema, dbUp, assets, licenses, contracts, now, boot, deleted, client>>

DeleteUser ==
    /\ last = NoCall
    /\ \E id \in RequestIds :
        LET out == deleteUser(id) IN
        /\ users' = out.table
        /\ last' = Call("deleteUser", id, [x \in {} |-> Null], users, out,
                        NoResponse)
    /\ UNCHANGED <<schema, dbUp, assets, licenses, contracts, now, boot, deleted, client>>

CreateContract ==
    /\ last = NoCall
    /\ \E i \in 1..Len(ContractPayloads), newId \in UUIDs :
        LET out == createContract(ContractPayloads[i], newId, now) IN
        /\ contracts' = out.table
        /\ last' = Call("createContract", "", ContractPayloads[i], contracts,
                        out, NoResponse)
    /\ UNCHANGED <<schema, dbUp, assets, licenses, users, now, boot, deleted, client>>

UpdateContract ==
    /\ last = NoCall
    /\ \E i \in 1..Len(EntityUpdates), id \in RequestIds :
        LET out == updateContract(id, EntityUpdates[i], now) IN
        /\ contracts' = out.table
        /\ last' = Call("updateContract", id, EntityUpdates[i], contracts, out,
                        NoResponse)
    /\ UNCHANGED <<schema, dbUp, assets, licenses, users, now, boot, deleted, client>>

DeleteContract ==
    /\ last = NoCall
    /\ \E id \in RequestIds :
        LET out == deleteContract(id) IN
        /\ contracts' = out.table
        /\ last' = Call("deleteContract", id, [x \in {} |-> Null], contracts,
                        out, NoResponse)
    /\ UNCHANGED <<schema, dbUp, assets, licenses, users, now, boot, deleted, client>>

GetAllLicenses ==
    /\ last = NoCall
    /\ \E out \in getAllLicenses :
        last' = Call("getAllLicenses", "", [x \in {} |-> Null], licenses, out,
                     NoResponse)
    /\ UNCHANGED <<schema, dbUp, assets, licenses, users, contracts, now, boot, deleted, client>>

GetAllUsers ==
    /\ last = NoCall
    /\ \E out \in getAllUsers :
        last' = Call("getAllUsers", "", [x \in {} |-> Null], users, out,
                     NoResponse)
    /\ UNCHANGED <<schema, dbUp, assets, licenses, users, contracts, now, boot, deleted, client>>

GetAllContracts ==
    /\ last = NoCall
    /\ \E out \in getAllContracts :
        last' = Call("getAllContracts", "", [x \in {} |-> Null], contracts, out,
                     NoResponse)
    /\ UNCHANGED <<schema, dbUp, assets, licenses, users, contracts, now, boot, deleted, client>>

(* --------------------------- Client Data Gateway ---------------------- *)

\* the path of API_URL, 'http://localhost:5000/api', as segments
ApiUrlPath == <<"api">>

\* encodeURIComponent and, on the server, the decoding of a route parameter
EncodeURIComponent(t) == IF t = "%" THEN "%25" ELSE t
DecodeURIComponent(t) == IF t = "%25" THEN "%" ELSE t

\* the method and the path, as written in the template string, of the
\* request a gateway function passes to fetch
GatewayRequest(fn, arg) ==
    CASE fn = "fetchAssets" ->
            [method |-> "GET", path |-> ApiUrlPath \o <<"assets">>]
      [] fn = "searchAssets" ->
            [method |-> "GET",
             path |-> ApiUrlPath \o <<"assets", "search", EncodeURIComponent(arg)>>]
      [] fn = "getAssetById" ->
            [method |-> "GET", path |-> ApiUrlPath \o <<"assets", arg>>]
      [] fn = "createAsset" ->
            [method |-> "POST", path |-> ApiUrlPath \o <<"assets">>]
      [] fn = "updateAsset" ->
            [method |-> "PUT", path |-> ApiUrlPath \o <<"assets", arg>>]
      [] fn = "deleteAsset" ->
            [method |-> "DELETE", path |-> ApiUrlPath \o <<"assets", arg>>]
      [] OTHER ->
            [method |-> "GET", path |-> ApiUrlPath \o <<"..", "stats">>]

RECURSIVE RemoveDotSegments(_, _)
\* the path of the URL fetch requests: the URL parser drops "." and lets
\* ".." take back the segment before it (done: the segments kept so far)
RemoveDotSegments(done, path) ==
    IF path = <<>> THEN done
    ELSE IF Head(path) = "." THEN RemoveDotSegments(done, Tail(path))
    ELSE IF Head(path) = ".."
        THEN RemoveDotSegments(
                IF done = <<>> THEN <<>> ELSE SubSeq(done, 1, Len(done) - 1),
                Tail(path))
    ELSE RemoveDotSegments(Append(done, Head(path)), Tail(path))

\* the routes of server.js in the order they are registered: the store
\* function the matching handler calls and the route parameter, "none" when
\* no route matches
Route(method, path) ==
    IF method = "GET" /\ path = <<"health">>
        THEN [op |-> "health", param |-> ""]
    ELSE IF method = "GET" /\ path = <<"api", "assets">>
        THEN [op |-> "getAllAssets", param |-> ""]
    ELSE IF method = "GET" /\ Len(path) = 3 /\ SubSeq(path, 1, 2) = <<"api", "assets">>
        THEN [op |-> "getAssetById", param |-> DecodeURIComponent(path[3])]
    ELSE IF method = "GET" /\ Len(path) = 4
                /\ SubSeq(path, 1, 3) = <<"api", "assets", "search">>
        THEN [op |-> "searchAssets", param |-> DecodeURIComponent(path[4])]
    ELSE IF method = "GET" /\ path = <<"api", "stats">>
        THEN [op |-> "getAssetStats", param |-> ""]
    ELSE IF method = "POST" /\ path = <<"api", "assets">>
        THEN [op |-> "createAsset", param |-> ""]
    ELSE IF method = "PUT" /\ Len(path) = 3 /\ SubSeq(path, 1, 2) = <<"api", "assets">>
        THEN [op |-> "updateAsset", param |-> DecodeURIComponent(path[3])]
    ELSE IF method = "DELETE" /\ Len(path) = 3
                /\ SubSeq(path, 1, 2) = <<"api", "assets">>
        THEN [op |-> "deleteAsset", param |-> DecodeURIComponent(path[3])]
    ELSE [op |-> "none", param |-> ""]

\* what the server can do with a routed request: the store call's outcome,
\* the response and the id gen_random_uuid() had ready; a request no route
\* matches gets Express's 404 page
ServerOutcomes(route, body) ==
    LET answer(out, http, newId) == [out |-> out, http |-> http, newId |-> newId]
    IN
    CASE route.op = "getAllAssets" ->
            {answer(o, GetAssetsResponse(o.result), "") : o \in getAllAssets}
      [] route.op = "getAssetById" ->
            {answer(getAssetById(route.param),
                    GetAssetsIdResponse(getAssetById(route.param).result), "")}
      [] route.op = "searchAssets" ->
            {answer(o, GetAssetsResponse(o.result), "") :
                o \in searchAssets(route.param)}
      [] route.op = "getAssetStats" ->
            {answer(getAssetStats, GetStatsResponse(getAssetStats.result), "")}
      [] route.op = "createAsset" ->
            {answer(createAsset(body, newId, now),
                    PostAssetsResponse(createAsset(body, newId, now).result),
                    newId) : newId \in UUIDs}
      [] route.op = "updateAsset" ->
            {answer(updateAsset(route.param, body, now),
                    PutAssetsIdResponse(updateAsset(route.param, body, now).result),
                    "")}
      [] route.op = "deleteAsset" ->
            {answer(deleteAsset(route.param),
                    DeleteAssetsIdResponse(deleteAsset(route.param).result), "")}
      [] OTHER ->
            {answer([result |-> Absent, table |-> assets, stmt |-> NoStatement],
                    Response(404, "", NoRow), "")}

\* the message of the error each gateway function throws
FailMessage(fn) ==
    CASE fn = "fetchAssets" -> "Failed to fetch assets"
      [] fn = "searchAssets" -> "Failed to search assets"
      [] fn = "getAssetById" -> "Asset not found"
      [] fn = "createAsset" -> "Failed to create asset"
      [] fn = "updateAsset" -> "Failed to update asset"
      [] fn = "deleteAsset" -> "Failed to delete asset"
      [] OTHER -> "Failed to fetch stats"

\* a gateway function throwing the message the server sent
GatewayOutcomeForwarding(fn, http) ==
    IF http.status \in 200..299
        THEN [kind |-> "value", message |-> "", body |-> http]
        ELSE [kind |-> "error", message |-> http.error, body |-> NoResponse]

\* if (!response.ok) throw new Error('...'); return await response.json()
GatewayOutcome(fn, http) ==
    IF http.status \in 200..299
        THEN [kind |-> "value", message |-> "", body |-> http]
        ELSE [kind |-> "error", message |-> FailMessage(fn), body |-> NoResponse]

\* the ways a call of gateway function fn can go: the exchange and the
\* table it leaves
Exchanges(fn, arg, body) ==
    LET req == GatewayRequest(fn, arg)
        path == RemoveDotSegments(<<>>, req.path)
        route == Route(req.method, path)
    IN { [ ex |-> [ fn |-> fn, id |-> arg, body |-> body,
                    method |-> req.method, path |-> path, route |-> route.op,
                    before |-> assets, newId |-> a.newId,
                    result |-> a.out.result, http |-> a.http,
                    outcome |-> GatewayOutcome(fn, a.http) ],
           table |-> a.out.table ] : a \in ServerOutcomes(route, body) }

\* the asset ids deleted and not handed out again, after exchange ex
DeletedAfter(ex) ==
    IF ex.result.kind # "row" THEN deleted
    ELSE IF ex.route = "deleteAsset" THEN deleted \cup {ex.result.row.id}
    ELSE IF ex.route = "createAsset" THEN deleted \ {ex.result.row.id}
    ELSE deleted

\* a caller invokes gateway function fn and the call completes
GatewayCall(fn, args, bodies) ==
    /\ \E arg \in args, j \in 1..Len(bodies) :
        \E e \in Exchanges(fn, arg, bodies[j]) :
            /\ exchange' = e.ex
            /\ assets' = e.table
            /\ deleted' = DeletedAfter(e.ex)
    /\ UNCHANGED <<schema, dbUp, licenses, users, contracts, now, boot, last,
                   ui, ops>>

FetchAssets == GatewayCall("fetchAssets", {""}, <<NoRow>>)
SearchAssets ==
    GatewayCall("searchAssets", {Queries[i] : i \in DOMAIN Queries}, <<NoRow>>)
GetAssetById == GatewayCall("getAssetById", RequestIds, <<NoRow>>)
CreateAsset == GatewayCall("createAsset", {""}, ApiPayloads)
UpdateAsset == GatewayCall("updateAsset", RequestIds, ApiUpdates)
DeleteAsset == GatewayCall("deleteAsset", RequestIds, <<NoRow>>)
GetAssetStats == GatewayCall("getAssetStats", {""}, <<NoRow>>)

\* no gateway function was called yet
NoExchange ==
    [ fn |-> "none", id |-> "", body |-> NoRow, method |-> "",
      path |-> <<>>, route |-> "none", before |-> {}, newId |-> "",
      result |-> Absent, http |-> NoResponse,
      outcome |-> [kind |-> "none", message |-> "", body |-> NoResponse] ]

(* --------------------------- UI Shell --------------------------------- *)

\* the page is not open

\* no browser is connected
ClientIdle == exchange = NoExchange /\ ui = [screen |-> "none"] /\ ops = <<>>

\* useState(...) of formData, and the value every reset gives it
EmptyForm ==
    [ asset_tag |-> "", asset_type |-> "", manufacturer |-> "", model |-> "",
      serial_number |-> "", assigned_user_name |-> "", status |-> "In Use" ]

\* One run of loadAssets, handleAddAsset or handleDeleteAsset, from its first
\* gateway call on.  pc: "call" / "reload" while a request is with the
\* server, "answered" / "reanswered" while its response is on the way back,
\* "done" after the finally block.  editing: the editingId the handler's
\* closure holds.  open: the runs that had a request in flight when this one
\* started.  status, newId, before, after: the first call's response status,
\* the id gen_random_uuid() had ready for it and the table around its
\* statement.
NewOp(kind, fn, id, body) ==
    [ kind |-> kind, pc |-> "call", fn |-> fn, id |-> id, body |-> body,
      editing |-> ui.editingId,
      open |-> {k \in DOMAIN ops : ops[k].pc # "done"},
      http |-> NoResponse,
      outcome |-> [kind |-> "none", message |-> "", body |-> NoResponse],
      status |-> 0, newId |-> "", before |-> {}, after |-> {} ]

\* useEffect(() => { loadAssets(); }, []) after the first render
Mount ==
    /\ ops = <<>>
    /\ ui' = [ui EXCEPT !.loading = TRUE, !.error = Null]
    /\ ops' = <<NewOp("load", "fetchAssets", "", NoRow)>>
    /\ UNCHANGED <<schema, dbUp, assets, licenses, users, contracts, now, boot,
                   deleted, last, exchange>>

\* onChange of the asset tag input
TypeAssetTag ==
    /\ ops # <<>>
    /\ ui.screen = "devices" /\ ui.showForm
    /\ \E tag \in {"A-200", "A-300"} :
        /\ tag # ui.formData.asset_tag
        /\ ui' = [ui EXCEPT !.formData.asset_tag = tag]
    /\ UNCHANGED <<schema, dbUp, assets, licenses, users, contracts, now, boot,
                   deleted, last, exchange, ops>>

\* the Add Device button: setShowForm(!showForm)
ClickAddDevice ==
    /\ ops # <<>>
    /\ ui.screen = "devices"
    /\ ui' = [ui EXCEPT !.showForm = ~ui.showForm]
    /\ UNCHANGED <<schema, dbUp, assets, licenses, users, contracts, now, boot,
                   deleted, last, exchange, ops>>

\* a sidebar button: setCurrentScreen(...); setShowForm(false)
ClickNav ==
    /\ ops # <<>>
    /\ \E screen \in {"devices", "licenses"} :
        ui' = [ui EXCEPT !.screen = screen, !.showForm = FALSE]
    /\ UNCHANGED <<schema, dbUp, assets, licenses, users, contracts, now, boot,
                   deleted, last, exchange, ops>>

\* the Dismiss link of the error banner: setError(null)
DismissError ==
    /\ ui.screen = "devices" /\ ui.error # Null
    /\ ui' = [ui EXCEPT !.error = Null]
    /\ UNCHANGED <<schema, dbUp, assets, licenses, users, contracts, now, boot,
                   deleted, last, exchange, ops>>

\* the edit button of a listed asset
handleEditAsset ==
    /\ ui.screen = "devices"
    /\ \E k \in DOMAIN ui.assets :
        LET asset == ui.assets[k] IN
        ui' = [ui EXCEPT !.editingId = asset.id,
                         !.formData = [f \in DOMAIN EmptyForm |-> asset[f]],
                         !.showForm = TRUE]
    /\ UNCHANGED <<schema, dbUp, assets, licenses, users, contracts, now, boot,
                   deleted, last, exchange, ops>>

\* the Cancel button of the form
handleCancelEdit ==
    /\ ui.screen = "devices" /\ ui.showForm
    /\ ui' = [ui EXCEPT !.editingId = Null, !.showForm = FALSE,
                        !.formData = EmptyForm]
    /\ UNCHANGED <<schema, dbUp, assets, licenses, users, contracts, now, boot,
                   deleted, last, exchange, ops>>

\* the submit button of the form, up to the first await
handleAddAsset ==
    /\ ui.screen = "devices" /\ ui.showForm
    /\ Len(ops) < MaxOps
    /\ IF ui.formData.asset_tag \in {"", " "}
        THEN UNCHANGED <<ui, ops>>
        ELSE /\ ui' = [ui EXCEPT !.loading = TRUE]
             /\ ops' = Append(ops,
                    IF ui.editingId \notin {Null, ""}
                        THEN NewOp("save", "updateAsset", ui.editingId, ui.formData)
                        ELSE NewOp("save", "createAsset", "", ui.formData))
    /\ UNCHANGED <<schema, dbUp, assets, licenses, users, contracts, now, boot,
                   deleted, last, exchange>>

\* the delete button of a listed asset, up to the first await
handleDeleteAsset ==
    /\ ui.screen = "devices"
    /\ Len(ops) < MaxOps
    /\ \E k \in DOMAIN ui.assets :
        ops' = Append(ops, NewOp("delete", "deleteAsset", ui.assets[k].id, NoRow))
    /\ ui' = [ui EXCEPT !.loading = TRUE]
    /\ UNCHANGED <<schema, dbUp, assets, licenses, users, contracts, now, boot,
                   deleted, last, exchange>>

\* the server handles the request a run has in flight and responds
Serve ==
    \E i \in DOMAIN ops :
        LET op == ops[i]
            first == op.pc = "call"
        IN
        /\ op.pc \in {"call", "reload"}
        /\ \E e \in Exchanges(IF first THEN op.fn ELSE "fetchAssets",
                              IF first THEN op.id ELSE "",
                              IF first THEN op.body ELSE NoRow) :
            /\ assets' = e.table
            /\ deleted' = DeletedAfter(e.ex)
            /\ ops' = [ops EXCEPT ![i] =
                        IF first
                        THEN [op EXCEPT !.pc = "answered", !.http = e.ex.http,
                                        !.outcome = e.ex.outcome,
                                        !.status = e.ex.http.status,
                                        !.newId = e.ex.newId,
                                        !.before = assets, !.after = e.table]
                        ELSE [op EXCEPT !.pc = "reanswered", !.http = e.ex.http,
                                        !.outcome = e.ex.outcome]]
        /\ UNCHANGED <<schema, dbUp, licenses, users, contracts, now, boot, last,
                       exchange, ui>>

\* a response arrives and the handler awaiting it runs on: to its next
\* gateway call or through its catch and finally blocks
Receive ==
    \E i \in DOMAIN ops :
        LET op == ops[i]
            ok == op.outcome.kind = "value"
            \* loadAssets after its await
            loaded == IF ok THEN [ui EXCEPT !.assets = op.outcome.body.rows,
                                            !.loading = FALSE]
                      ELSE [ui EXCEPT !.error = "Failed to load assets. Make sure the backend server is running on port 5000.",
                                      !.loading = FALSE]
            \* the try block of handleAddAsset after its await, up to the
            \* await inside loadAssets
            saved == [ui EXCEPT !.editingId =
                                    IF op.editing \notin {Null, ""}
                                        THEN Null ELSE ui.editingId,
                                !.formData = EmptyForm, !.showForm = FALSE,
                                !.loading = TRUE, !.error = Null]
            failed(what) ==
                [ui EXCEPT !.error = "Failed to " \o what \o " asset: "
                                        \o op.outcome.message,
                           !.loading = FALSE]
        IN
        /\ op.pc \in {"answered", "reanswered"}
        /\ ui' = IF op.pc = "reanswered" \/ op.kind = "load" THEN loaded
                 ELSE IF op.kind = "save"
                    THEN IF ok THEN saved
                         ELSE failed(IF op.editing \notin {Null, ""}
                                        THEN "update" ELSE "add")
                 ELSE IF ok THEN [ui EXCEPT !.loading = TRUE, !.error = Null]
                 ELSE failed("delete")
        /\ ops' = [ops EXCEPT ![i] =
                    [op EXCEPT !.pc = IF op.pc = "answered" /\ op.kind # "load" /\ ok
                                        THEN "reload" ELSE "done",
                               !.http = NoResponse,
                               !.outcome = NewOp("", "", "", NoRow).outcome]]
        /\ UNCHANGED <<schema, dbUp, assets, licenses, users, contracts, now, boot,
                   deleted, last, exchange>>

(* --------------------------- specifications --------------------------- *)

\* the asset API on an initialized, reachable database
Init ==
    /\ schema = FullSchema
    /\ dbUp = TRUE
    /\ assets = {}
    /\ licenses = {}
    /\ users = {}
    /\ contracts = {}
    /\ now = 0
    /\ boot = BootInitialized
    /\ deleted = {}
    /\ last = NoCall
    /\ ClientIdle

Next ==
    \/ PostAssets
    \/ PutAssetsId
    \/ DeleteAssetsId
    \/ Deliver
    \/ Tick

Spec == Init /\ [][Next]_vars

\* the four entities side by side: the store functions of licenses, users
\* and contracts have no route and are called directly
NextEntities ==
    \/ PostAssetsOf(FewAssetPayloads)
    \/ PutAssetsIdOf(FewAssetUpdates)
    \/ CreateLicense
    \/ UpdateLicense
    \/ DeleteLicense
    \/ CreateUser
    \/ UpdateUser
    \/ DeleteUser
    \/ CreateContract
    \/ UpdateContract
    \/ DeleteContract
    \/ GetAllLicenses
    \/ GetAllUsers
    \/ GetAllContracts
    \/ Deliver

SpecEntities == Init /\ [][NextEntities]_vars

\* the whole asset API, reads included, on a database that can become
\* unreachable, behind a server that started initialized or degraded
InitApi ==
    /\ schema \in {FullSchema, {}}
    /\ dbUp \in BOOLEAN
    /\ assets = {}
    /\ licenses = {}
    /\ users = {}
    /\ contracts = {}
    /\ now = 0
    /\ boot = IF schema = FullSchema THEN BootInitialized
              ELSE \* startServer after it gave up
                   [ pc |-> "done", retries |-> 0, stmt |-> 0, calls |-> Retries,
                     running |-> 0, sleeps |-> Retries - 1,
                     waited |-> RetryDelayMs * (Retries - 1),
                     outcome |-> "degraded", from |-> {} ]
    /\ deleted = {}
    /\ last = NoCall
    /\ ClientIdle

NextApi ==
    \/ GetAssets
    \/ GetAssetsId
    \/ GetAssetsSearch
    \/ GetStats
    \/ PostAssetsOf(ApiPayloads)
    \/ PutAssetsIdOf(ApiUpdates)
    \/ DeleteAssetsId
    \/ DbFlip
    \/ Deliver
    \/ Tick

SpecApi == InitApi /\ [][NextApi]_vars

\* rows a table assets holds when the server starts
StoredAssets ==
    { InsertedRow(AssetsTable,
                  [asset_tag |-> "A-100", asset_type |-> "hardware"], "u1", 0) }

\* startup against a database that is empty or holds what an earlier,
\* interrupted initDatabase left
InitStart ==
    /\ schema \in {SchemaAfter(k) : k \in 0..(Len(InitStatements) - 1)}
    /\ dbUp \in BOOLEAN
    /\ assets \in IF "assets" \in schema THEN {{}, StoredAssets} ELSE {{}}
    /\ licenses = {}
    /\ users = {}
    /\ contracts = {}
    /\ now = 0
    /\ boot = BootStart
    /\ deleted = {}
    /\ last = NoCall
    /\ ClientIdle

NextStart ==
    \/ StartAttempt
    \/ InitStep
    \/ RetryDelay
    \/ GiveUp
    \/ DbFlip

SpecStart == InitStart /\ [][NextStart]_vars

\* the event loop runs every continuation that is ready
SpecStartFair ==
    SpecStart /\ WF_vars(StartAttempt \/ InitStep \/ RetryDelay \/ GiveUp)

\* startup with the second initDatabase of queries.js, against a database
\* that is empty or holds what an earlier run of it left
InitStartSecond ==
    /\ schema \in { {InitStatementsSecond[i].name : i \in 1..k} :
                        k \in 0..(Len(InitStatementsSecond) - 1) }
    /\ dbUp \in BOOLEAN
    /\ assets \in IF "assets" \in schema THEN {{}, StoredAssets} ELSE {{}}
    /\ licenses = {}
    /\ users = {}
    /\ contracts = {}
    /\ now = 0
    /\ boot = BootStart
    /\ deleted = {}
    /\ last = NoCall
    /\ ClientIdle

NextStartSecond ==
    \/ StartAttempt
    \/ InitStepSecond
    \/ RetryDelay
    \/ GiveUp
    \/ DbFlip

SpecStartSecond == InitStartSecond /\ [][NextStartSecond]_vars

\* the server from process start, on a database without tables: app.listen
\* and startServer() are both called at module load, so requests are
\* handled while startServer runs, and after it returned (initialized or
\* degraded)
InitServe ==
    /\ schema = {}
    /\ dbUp \in BOOLEAN
    /\ assets = {}
    /\ licenses = {}
    /\ users = {}
    /\ contracts = {}
    /\ now = 0
    /\ boot = BootStart
    /\ deleted = {}
    /\ last = NoCall
    /\ ClientIdle

NextServe ==
    \/ StartAttempt
    \/ InitStep
    \/ RetryDelay
    \/ GiveUp
    \/ DbFlip
    \/ GetAssets
    \/ GetAssetsId
    \/ GetStats
    \/ PostAssetsOf(FewAssetPayloads)
    \/ PutAssetsIdOf(FewAssetUpdates)
    \/ DeleteAssetsId
    \/ Deliver

SpecServe == InitServe /\ [][NextServe]_vars

\* the gateway functions called one after another against a running,
\* initialized server
NextGateway ==
    \/ FetchAssets
    \/ SearchAssets
    \/ GetAssetById
    \/ CreateAsset
    \/ UpdateAsset
    \/ DeleteAsset
    \/ GetAssetStats
    \/ DbFlip

SpecGateway == Init /\ [][NextGateway]_vars

\* the single-page application after its first render, in front of a
\* running, initialized server
InitShell ==
    /\ schema = FullSchema
    /\ dbUp = TRUE
    /\ assets \in {{}, StoredAssets}
    /\ licenses = {}
    /\ users = {}
    /\ contracts = {}
    /\ now = 0
    /\ boot = BootInitialized
    /\ deleted = {}
    /\ last = NoCall
    /\ exchange = NoExchange
    /\ ui = [ screen |-> "devices", showForm |-> FALSE, editingId |-> Null,
              formData |-> EmptyForm, loading |-> FALSE, error |-> Null,
              assets |-> <<>> ]
    /\ ops = <<>>

NextShell ==
    \/ Mount
    \/ TypeAssetTag
    \/ ClickAddDevice
    \/ ClickNav
    \/ DismissError
    \/ handleEditAsset
    \/ handleCancelEdit
    \/ handleAddAsset
    \/ handleDeleteAsset
    \/ Serve
    \/ Receive

SpecShell == InitShell /\ [][NextShell]_vars

(* --------------------------- properties ------------------------------- *)

UpdateOps == {"updateAsset", "updateLicense", "updateUser", "updateContract"}
CreateOps == {"createAsset", "createLicense", "createUser", "createContract"}

\* the keys of a field bag whose value is neither undefined nor null
SuppliedKeys(data) == {k \in DOMAIN data : data[k] # Undef /\ data[k] # Null}

\* the declaration and the present rows of the table a store function works on
TableDef(op) ==
    CASE op \in {"createAsset", "updateAsset", "deleteAsset"} -> AssetsTable
      [] op \in {"createLicense", "updateLicense", "deleteLicense"} -> LicensesTable
      [] op \in {"createUser", "updateUser", "deleteUser"} -> UsersTable
      [] OTHER -> ContractsTable

TableNow(op) ==
    CASE op \in {"createAsset", "updateAsset", "deleteAsset"} -> assets
      [] op \in {"createLicense", "updateLicense", "deleteLicense"} -> licenses
      [] op \in {"createUser", "updateUser", "deleteUser"} -> users
      [] OTHER -> contracts

\* C1: an update (of any of the four entities) whose field bag is empty or
\* holds only null / undefined values throws 'No fields to update', sends no
\* statement, leaves the table as it was, and PUT /api/assets/:id answers 400.
C1_EmptyUpdateRejected ==
    (last.op \in UpdateOps /\ SuppliedKeys(last.data) = {}) =>
        /\ last.result = Thrown("No fields to update", "")
        /\ last.stmt = NoStatement
        /\ TableNow(last.op) = last.before
        /\ (last.op = "updateAsset" => last.http.status = 400)

\* a PUT of an existing asset whose body holds only null / undefined values
C1_Witness ==
    /\ last.op = "updateAsset"
    /\ DOMAIN last.data # {}
    /\ SuppliedKeys(last.data) = {}
    /\ \E r \in assets : r.id = last.id
    /\ last.http.status = 400

\* an update of assets whose bag supplies a field, for an id no row has
UpdateOfMissingId ==
    /\ last.op = "updateAsset"
    /\ SuppliedKeys(last.data) # {}
    /\ ~ \E r \in last.before : r.id = last.id

\* the bag supplies only columns of the table other than updated_at, each
\* with a value of the column's type
PlainBag(ddl, data) ==
    \A k \in SuppliedKeys(data) :
        k \in ddl.columns \ {"updated_at"} /\ WellTyped(ddl, k, data[k])

C3_DeleteTwice ==
    last.op = "deleteAsset" =>
        IF last.id \in last.gone
            THEN /\ last.result = Absent
                 /\ assets = last.before
                 /\ last.http.status = 404
            ELSE (\E r \in last.before : r.id = last.id) =>
                 /\ last.result.kind = "row"
                 /\ last.result.row \in last.before
                 /\ last.result.row.id = last.id
                 /\ assets = last.before \ {last.result.row}
                 /\ last.http.status = 200

\* C4: createAsset with a payload that omits status, cost and discovered
\* stores and returns a row with status 'In Use', cost 0 and discovered
\* false, and with every field of the payload that createAsset inserts as
\* the payload gives it.
C4_CreateDefaults ==
    ( /\ last.op = "createAsset"
      /\ DOMAIN last.data \cap {"status", "cost", "discovered"} = {}
      /\ last.result.kind = "row" ) =>
        LET r == last.result.row IN
        /\ r \in assets
        /\ r.status = "In Use"
        /\ r.cost = "0"
        /\ r.discovered = "false"
        /\ \A k \in DOMAIN last.data \cap
                    {"asset_tag", "asset_type", "manufacturer", "model",
                     "serial_number", "assigned_user_name"} :
                r[k] = last.data[k]

\* a create that omits the three fields and supplies a serial number
C4_Witness ==
    /\ last.op = "createAsset"
    /\ DOMAIN last.data \cap {"status", "cost", "discovered"} = {}
    /\ "serial_number" \in DOMAIN last.data
    /\ last.result.kind = "row"
    /\ last.result.row.status = "In Use"

\* C5: the row a successful create returns is in the table, no other row of
\* the table has its id, and its updated_at equals its created_at.
C5_CreatedIdUnique ==
    (last.op \in CreateOps /\ last.result.kind = "row") =>
        LET r == last.result.row IN
        /\ r \in TableNow(last.op)
        /\ \A o \in TableNow(last.op) \ {r} : o.id # r.id
        /\ r.updated_at = r.created_at

\* a create, after a delete and a tick of the clock, that is given the id of
\* the deleted row while another row is in the table
C5_Witness ==
    /\ last.op = "createAsset"
    /\ last.result.kind = "row"
    /\ last.result.row.id \in last.gone
    /\ last.result.row.created_at > 0
    /\ Cardinality(assets) = 2

\* a create whose tag or non-null serial number a row of the table has
CreateClashes ==
    /\ last.op = "createAsset"
    /\ LET tag == SqlParam(Get(last.data, "asset_tag"))
           serial == SqlParam(Get(last.data, "serial_number"))
       IN \E o \in last.before :
            \/ tag # Null /\ o.asset_tag = tag
            \/ serial # Null /\ o.serial_number = serial

\* an update of an existing row to the tag or serial number of another row
UpdateClashes ==
    /\ last.op = "updateAsset"
    /\ last.id \in UUIDs
    /\ PlainBag(AssetsTable, last.data)
    /\ \E r \in last.before : r.id = last.id /\
        \E o \in last.before \ {r} :
            \/ "asset_tag" \in SuppliedKeys(last.data)
                /\ o.asset_tag = last.data["asset_tag"]
            \/ "serial_number" \in SuppliedKeys(last.data)
                /\ o.serial_number = last.data["serial_number"]

\* C6: no two asset rows share an asset_tag, no two share a non-null
\* serial_number, and a create or update that would make two rows share one
\* fails and leaves the table as it was.
C6_TagSerialUnique ==
    /\ \A r1, r2 \in assets :
        r1 # r2 =>
            /\ r1.asset_tag # r2.asset_tag
            /\ r1.serial_number = Null \/ r1.serial_number # r2.serial_number
    /\ (CreateClashes \/ UpdateClashes) =>
            /\ last.result.kind = "error"
            /\ assets = last.before

\* an update refused because another row has the tag
C6_Witness ==
    /\ UpdateClashes
    /\ "asset_tag" \in SuppliedKeys(last.data)
    /\ last.result = ErrUnique
    /\ Cardinality(assets) = 2

\* C7: a create or update that violates a uniqueness constraint is answered
\* with an error the caller can tell, by the response status, from the
\* answer to a validation error and from the answer to an infrastructure
\* error on the same route.
C7_ConflictDistinct ==
    (last.result.kind = "error" /\ last.result.code = "23505") =>
        /\ last.op = "createAsset" =>
            /\ last.http.status # PostAssetsResponse(ErrNotNull).status
            /\ last.http.status # PostAssetsResponse(ErrConnection).status
        /\ last.op = "updateAsset" =>
            /\ last.http.status #
                 PutAssetsIdResponse(Thrown("No fields to update", "")).status
            /\ last.http.status # PutAssetsIdResponse(ErrConnection).status

\* C8: a successful update sets exactly the columns whose keys the bag
\* supplies with a non-null value, to those values, sets updated_at to the
\* time of the call, leaves the row's other columns and the other rows as
\* they were, and returns the stored row.
C8_UpdateExact ==
    (last.op = "updateAsset" /\ last.result.kind = "row") =>
        LET new == last.result.row
            keys == SuppliedKeys(last.data)
            olds == {r \in last.before : r.id = last.id}
        IN /\ olds # {}
           /\ LET old == CHOOSE r \in olds : TRUE IN
              /\ \A c \in AssetsTable.columns \ {"updated_at"} :
                    IF c \in keys THEN new[c] = StoredAs(c, last.data[c])
                                  ELSE new[c] = old[c]
              /\ new.updated_at = last.at
              /\ assets = (last.before \ {old}) \cup {new}

\* C9: an update whose bag holds a key that is no column of the table is
\* rejected before any statement is sent, and no caller-supplied key other
\* than a data column of the table (so neither id nor created_at) is a
\* column name of an UPDATE statement that is sent.
C9_KeysAllowListed ==
    last.op \in UpdateOps =>
        LET ddl == TableDef(last.op)
            sent == last.stmt.set
        IN /\ (\E k \in DOMAIN last.data : k \notin ddl.columns) =>
                (last.result.kind = "error" /\ last.stmt = NoStatement)
           /\ \A i \in 1..(Len(sent) - 1) :
                sent[i] \in ddl.columns \ {"id", "created_at", "updated_at"}

\* what holds of startServer at every moment: at most one initDatabase is
\* running, at most Retries were started, every attempt but the first was
\* preceded by exactly one delay of RetryDelayMs, and startServer has
\* returned only after a success or after Retries failures, with no delay
\* behind the last failure
StartServerBounded ==
    /\ boot.running \in {0, 1}
    /\ boot.running = 1 <=> boot.pc = "init"
    /\ boot.calls <= Retries
    /\ boot.waited = RetryDelayMs * boot.sleeps
    /\ boot.pc = "init" => boot.sleeps = boot.calls - 1
    /\ boot.pc = "sleep" => (boot.sleeps = boot.calls - 1 /\ boot.calls < Retries)
    /\ boot.pc = "done" =>
        \/ /\ boot.outcome = "initialized"
           /\ boot.calls = Retries - boot.retries + 1
           /\ boot.sleeps = boot.calls - 1
           /\ TableNames \subseteq schema
        \/ /\ boot.outcome = "degraded"
           /\ boot.retries = 0
           /\ boot.calls = Retries
           /\ boot.sleeps = Retries - 1

\* C10: startServer always returns and never throws; it runs initDatabase
\* one attempt at a time, at most three times, stops at the first success,
\* waits 2 seconds between a failed attempt and the next one only, and after
\* the third failure returns with the server left running.
C10_StartServerTerminates ==
    /\ []StartServerBounded
    /\ [][boot.pc = "done" => boot' = boot]_vars
    /\ <>(boot.pc = "done")

\* startServer returned after three failed attempts and two delays
C10_Witness ==
    /\ boot.pc = "done"
    /\ boot.outcome = "degraded"
    /\ boot.calls = 3
    /\ boot.waited = 4000

\* C11: a run of initDatabase on a database that holds everything a
\* successful run leaves raises no error and leaves the tables, the indexes
\* and the stored rows as they were.
C11_InitIdempotent ==
    [][ (boot.pc = "init" /\ dbUp /\ boot.from = FullSchema) =>
            /\ boot'.retries = boot.retries
            /\ boot'.pc \in {"init", "done"}
            /\ schema' = schema
            /\ schema' = FullSchema
            /\ <<assets, licenses, users, contracts>>' =
                    <<assets, licenses, users, contracts>> ]_vars

\* initDatabase returned from a run that started on the full schema with a
\* row stored in assets
C11_Witness ==
    /\ boot.pc = "done"
    /\ boot.outcome = "initialized"
    /\ boot.from = FullSchema
    /\ schema = FullSchema
    /\ assets = StoredAssets

\* C20: a run of initDatabase that starts on what any prefix of its CREATE
\* statements left, and during which the database stays reachable, raises no
\* error, and when it returns all four tables and all eight indexes exist.
C20_PartialSchemaRecovers ==
    [][ (boot.pc = "init" /\ dbUp /\ boot' # boot) =>
            /\ boot'.retries = boot.retries
            /\ boot'.pc \in {"init", "done"}
            /\ boot.from \subseteq schema'
            /\ boot'.pc = "done" =>
                (boot'.outcome = "initialized" /\ schema' = FullSchema) ]_vars

\* initDatabase returned from its first run, which started on the tables
\* and only some of the indexes
C20_Witness ==
    /\ boot.pc = "done"
    /\ boot.outcome = "initialized"
    /\ boot.calls = 1
    /\ TableNames \subseteq boot.from
    /\ boot.from \notin {TableNames, FullSchema}
    /\ schema = FullSchema

\* the handlers whose route has an :id parameter, by the store function called
IdOps == {"getAssetById", "updateAsset", "deleteAsset"}

\* the store call failed because the database could not be reached or the
\* table does not exist
InfrastructureFailure == last.result \in {ErrConnection, ErrNoTable}

\* C12: GET /api/assets/:id for an id that no row of the table has (never
\* created, or deleted), the database being reachable and initialized, is
\* answered 404 with a body that carries an error.
C12_GetMissingIs404 ==
    ( /\ last.op = "getAssetById"
      /\ ~ \E r \in last.before : r.id = last.id
      /\ ~InfrastructureFailure ) =>
        /\ last.http.status = 404
        /\ last.http.error # ""

\* C13: GET, PUT and DELETE /api/assets/:id with an id that is not a
\* well-formed identifier send no statement to the database and are answered
\* with a 4xx status.
C13_IdValidated ==
    (last.op \in IdOps /\ last.id \notin UUIDs) =>
        /\ last.stmt = NoStatement
        /\ last.http.status \in 400..499

\* C14: when the store call of a request returns a row or rows, the answer
\* is 201 for POST /api/assets and 200 for every other route, and its body
\* carries what the store returned.
C14_SuccessStatus ==
    (last.op # "none" /\ last.result.kind \in {"row", "rows"}) =>
        /\ last.http.status = IF last.op = "createAsset" THEN 201 ELSE 200
        /\ last.http.error = ""
        /\ last.http.row = last.result.row
        /\ last.http.rows = last.result.rows

\* a search answered with the one row it found, and a create answered 201
C14_Witness ==
    \/ /\ last.op = "searchAssets"
       /\ Len(last.result.rows) = 1
       /\ last.http.status = 200
       /\ Cardinality(assets) = 2
    \/ /\ last.op = "createAsset"
       /\ last.http.status = 201
       /\ last.http.row \in assets
       /\ Cardinality(assets) = 2

\* C15: a request whose store call fails because the database cannot be
\* reached or the table is missing is answered 500, on every route.
C15_InfrastructureIs500 ==
    (last.op # "none" /\ InfrastructureFailure) => last.http.status = 500

\* C16: getAssetStats returns the number of asset rows, of rows with status
\* 'In Use', of rows with status 'Retired' and of rows with discovered true,
\* all of the table as it is at the call, so in_use + retired <= total_assets.
C16_StatsCounts ==
    (last.op = "getAssetStats" /\ last.result.kind = "row") =>
        LET st == last.result.row
            rows == last.before
        IN /\ st.total_assets = Cardinality(rows)
           /\ st.in_use = Cardinality({r \in rows : r.status = "In Use"})
           /\ st.retired = Cardinality({r \in rows : r.status = "Retired"})
           /\ st.discovered = Cardinality({r \in rows : r.discovered = "true"})
           /\ st.in_use + st.retired <= st.total_assets
           /\ last.http.row = st

\* stats of a table with one row in use and one retired, discovered row
C16_Witness ==
    /\ last.op = "getAssetStats"
    /\ last.result.kind = "row"
    /\ last.result.row.total_assets = 2
    /\ last.result.row.in_use = 1
    /\ last.result.row.retired = 1
    /\ last.result.row.discovered = 1

\* the query occurs in text v as a literal substring, case ignored
Contains(v, query) ==
    /\ v # Null
    /\ LET t == Chars[v]
           q == Chars[query]
       IN \E i \in 0..(Len(t) - Len(q)) :
            \A k \in 1..Len(q) : Lower(t[i + k]) = Lower(q[k])

\* C17: searchAssets returns exactly the rows in which the query occurs as
\* a literal substring, case ignored, of asset_tag, manufacturer, model or
\* assigned_user_name (also when the query holds % or _), each once,
\* newest-created first.
C17_SearchLiteral ==
    (last.op = "searchAssets" /\ last.result.kind = "rows") =>
        LET rs == last.result.rows IN
        /\ {rs[i] : i \in 1..Len(rs)} =
                {r \in last.before :
                    \E c \in AssetSearchColumns : Contains(r[c], last.data.query)}
        /\ \A i, j \in 1..Len(rs) : i # j => rs[i] # rs[j]
        /\ NewestFirst(rs)

\* the places row r can take in a listing of table tbl
Positions(tbl, r) ==
    {i \in 1..Cardinality(tbl) : \E rs \in OrderByCreatedDesc(tbl) : rs[i] = r}

ListOps == {"getAllAssets", "getAllLicenses", "getAllUsers", "getAllContracts"}

C19_CreateDefaultsOthers ==
    last.result.kind = "row" =>
        LET r == last.result.row IN
        /\ ( /\ last.op = "createLicense"
             /\ DOMAIN last.data \cap {"quantity", "status", "cost"} = {} ) =>
                (r.quantity = "1" /\ r.status = "Active" /\ r.cost = "0")
        /\ ( /\ last.op = "createContract"
             /\ DOMAIN last.data \cap {"status", "contract_value"} = {} ) =>
                (r.status = "Active" /\ r.contract_value = "0")
        /\ ( /\ last.op = "createUser"
             /\ "status" \notin DOMAIN last.data ) =>
                r.status = "Active"

\* C21: initDatabase returns normally only when all four tables (assets,
\* licenses, users, contracts) exist; with one of them missing after its
\* statements ran it throws, and startServer counts a failed attempt.
C21_SuccessMeansFourTables ==
    /\ boot.outcome = "initialized" => TableNames \subseteq schema
    /\ (boot.pc = "done" /\ ~(TableNames \subseteq schema)) =>
            (boot.outcome = "degraded" /\ boot.retries = 0)

\* C23: when the store call of a request throws, the handler answers (no
\* error escapes it) with an error status and a body whose error field is
\* the thrown error's message, unchanged.
C23_ErrorForwarded ==
    (last.op # "none" /\ last.result.kind = "error") =>
        /\ last.http.status \in {400, 500}
        /\ last.http.error = last.result.message
        /\ last.http.row = NoRow
        /\ last.http.rows = <<>>

\* a create refused by the unique constraint and a read of an unreachable
\* database, each answered with the error's message
C23_Witness ==
    \/ /\ last.op = "createAsset"
       /\ last.result = ErrUnique
       /\ last.http.error = "duplicate key value violates unique constraint"
    \/ /\ last.op = "getAssetById"
       /\ last.result = ErrConnection
       /\ last.http.error = "connect ECONNREFUSED"

\* the store functions the routes call
RouteOps == {"getAllAssets", "getAssetById", "searchAssets", "getAssetStats",
             "createAsset", "updateAsset", "deleteAsset"}

\* C25: on every path through a handler (the store call returned a row or
\* rows, returned nothing, or threw) the handler sends exactly one response,
\* the one the caller receives.
C25_OneResponse ==
    last.op \in RouteOps =>
        /\ Len(HandlerSends(last.op, last.result)) = 1
        /\ HandlerSends(last.op, last.result)[1] = last.http

\* a PUT for an id no row has, answered by the single 404
C25_Witness ==
    /\ last.op = "updateAsset"
    /\ last.result = Absent
    /\ HandlerSends(last.op, last.result) = << last.http >>
    /\ last.http.status = 404

\* a step in which a handler runs
RequestStep == last = NoCall /\ last' # NoCall

\* C24: requests are handled before, while and after startServer runs; a
\* request handled while the assets table does not exist is answered with
\* an error status, and no request changes the schema or startServer's
\* position (it neither waits for nor starts an initialization).
C24_ServeWithoutSchema ==
    [][ RequestStep =>
            /\ boot' = boot
            /\ schema' = schema
            /\ "assets" \notin schema =>
                (last'.result.kind = "error" /\ last'.http.status \in {400, 500}) ]_vars

\* a request answered 'relation does not exist' while initDatabase is
\* running, before the assets table was created
C24_Witness ==
    /\ boot.pc = "init"
    /\ boot.stmt = 1
    /\ "assets" \notin schema
    /\ last.op = "getAllAssets"
    /\ last.result = ErrNoTable
    /\ last.http.status = 500


\* the Record Store operation each gateway function is written for
MatchingOp(fn) == IF fn = "fetchAssets" THEN "getAllAssets" ELSE fn

\* C28: every gateway function's request is routed to the matching Record
\* Store operation; in particular getAssetStats reaches GET /api/stats.
C28_RoutedToMatchingOp ==
    exchange.fn # "none" => exchange.route = MatchingOp(exchange.fn)

\* C30: a response outside 2xx makes the gateway function throw its own fixed
\* message, whatever the status and the server's message were, and a 2xx
\* response makes it return the parsed body.
C30_FixedMessage ==
    exchange.fn # "none" =>
        IF exchange.http.status \in 200..299
            THEN exchange.outcome =
                    [kind |-> "value", message |-> "", body |-> exchange.http]
            ELSE exchange.outcome =
                    [kind |-> "error", message |-> FailMessage(exchange.fn),
                     body |-> NoResponse]

\* a create the server rejected with its own message, thrown as the fixed one
C30_Witness ==
    /\ exchange.fn = "createAsset"
    /\ exchange.http.status = 400
    /\ exchange.http.error # ""
    /\ exchange.http.error # FailMessage("createAsset")
    /\ exchange.outcome.kind = "error"
    /\ exchange.outcome.message = "Failed to create asset"


\* C26: the form is never hidden while an asset is still chosen for editing,
\* so that a submit from a re-opened form issues a create request.
C26_HiddenFormNotEditing ==
    ui.showForm = FALSE => ui.editingId = Null

\* the runs of handleAddAsset that sent createAsset with a blank serial number
\* and a tag no stored row had, that the server has answered, and for which
\* it drew an id no stored row had
BlankSerialCreates ==
    {i \in DOMAIN ops :
        /\ ops[i].fn = "createAsset" /\ ops[i].status # 0
        /\ ops[i].body.serial_number = ""
        /\ ops[i].body.asset_tag \notin {"", " "}
        /\ \A r \in ops[i].before :
                r.asset_tag # ops[i].body.asset_tag /\ r.id # ops[i].newId}

\* C27: two assets created through the form with distinct asset tags and the
\* serial number left blank are both persisted.
C27_BlankSerialsBothPersisted ==
    \A i, j \in BlankSerialCreates :
        ops[i].body.asset_tag # ops[j].body.asset_tag =>
            /\ ops[i].status = 201
            /\ ops[j].status = 201

\* C29: loading is true exactly while a run of loadAssets, handleAddAsset or
\* handleDeleteAsset has a gateway request in flight.
C29_LoadingWhileInFlight ==
    ui.loading = (\E i \in DOMAIN ops : ops[i].pc # "done")

\* runs i and j had requests in flight at the same time
Concurrent(i, j) == i # j /\ (i \in ops[j].open \/ j \in ops[i].open)

\* C22: each Record Store call takes effect as one atomic statement: of two
\* concurrent creates with the same asset_tag, the one whose statement runs on
\* the table the other left is rejected and leaves the one row; an update
\* concurrent with a delete of the same id that runs after it finds no row and
\* changes nothing, and the row a DELETE response reported deleted is gone.
C22_AtomicStatements ==
    /\ \A r1, r2 \in assets : r1.asset_tag = r2.asset_tag => r1 = r2
    /\ \A i, j \in DOMAIN ops :
        ( /\ Concurrent(i, j)
          /\ ops[i].fn = "createAsset" /\ ops[j].fn = "createAsset"
          /\ ops[i].body.asset_tag = ops[j].body.asset_tag
          /\ ops[i].status = 201 /\ ops[j].status # 0
          /\ ops[j].before = ops[i].after ) =>
            /\ ops[j].status = 400
            /\ ops[j].after = ops[j].before
            /\ Cardinality({r \in ops[j].after :
                    r.asset_tag = ops[i].body.asset_tag}) = 1
    /\ \A i, j \in DOMAIN ops :
        ( /\ Concurrent(i, j)
          /\ ops[i].fn = "deleteAsset" /\ ops[i].status = 200
          /\ ops[j].fn = "updateAsset" /\ ops[j].status # 0
          /\ ops[j].id = ops[i].id ) =>
            /\ (\A r \in ops[j].before : r.id # ops[i].id) =>
                    ops[j].status = 404 /\ ops[j].after = ops[j].before
            /\ ops[i].id \in deleted => \A r \in assets : r.id # ops[i].id

\* two submits of the same new tag in flight together: one created, and the
\* other rejected
C22_Witness ==
    \E i, j \in DOMAIN ops :
        /\ Concurrent(i, j)
        /\ ops[i].fn = "createAsset" /\ ops[j].fn = "createAsset"
        /\ ops[i].body.asset_tag = ops[j].body.asset_tag
        /\ ops[i].status = 201 /\ ops[j].status = 400
        /\ ops[j].before = ops[i].after

====
